---- MODULE Spec2Model ----
(***************************************************************************)
(* Model of att_graph_runner/master_dq_runner.py: the double-oracle        *)
(* orchestrator (main, run_epoch, run_train_test_both, run_train_test_all) *)
(* together with the external state it reads: lock files, the recorded     *)
(* defender-train port, the result artifacts and the required directories  *)
(* and seed files.                                                         *)
(***************************************************************************)
EXTENDS Integers, Sequences, FiniteSets, TLC

\* ---------------------------------------------------------------- bounds
MaxStartEpoch == 1
MaxBudget == 2
MaxEpoch == 2
MaxParams == 2
MaxSteps == 2

\* ------------------------------------------------------- program constants
\* train_test_def.py (imported at master_dq_runner.py:8-9) is not part of the
\* sources; the three port constants are small stand-ins with the stride
\* dividing the width of the range.
MIN_PORT == 2
MAX_PORT == 6
PORTS_PER_ROUND == 2

\* Python's None for the optional round budget: an optional integer is a
\* sequence of length 0 (None) or 1 (the integer).
None == <<>>
Some(n) == <<n>>

Dirs == <<"depgraphpy4jattvseither", "depgraphpy4jdefvseither", "depgraphpy4jboth",
          "dg4jattcli", "dg4jdefcli", "dg4jnonetcli", "graphs", "simspecs">>
Files == <<"defaults.json", "game_N.json", "attNetStrings.txt", "defNetStrings.txt",
           "attStratStrings.txt", "defStratStrings.txt", "oldAttNetNames.txt",
           "oldDefNetNames.txt">>
Resources == Dirs \o Files

LockNames == {"def_train", "def_test", "att_train", "att_test"}
Ports == MIN_PORT .. (MAX_PORT - 1)

\* The sets of missing directories and files a run is started with: nothing
\* missing; the first or the last directory; the first or the last file; two
\* directories; the last directory and the first file; two files.
MissingChoices ==
    {{}, {Dirs[1]}, {Dirs[Len(Dirs)]}, {Files[1]}, {Files[Len(Files)]},
     {Dirs[3], Dirs[5]}, {Dirs[Len(Dirs)], Files[1]}, {Files[2], Files[7]}}

VARIABLES
    pc,                 \* position of the orchestrator's control flow
    cur_epoch,          \* main's argument
    max_new_rounds,     \* main's argument, None or Some(k)
    max_timesteps_def,  \* main's argument, the defender's training steps
    max_timesteps_att,  \* main's argument, the attacker's training steps
    my_epoch,           \* main's epoch counter
    rounds_left,        \* main's remaining budget, None or Some(k)
    should_continue,    \* main's loop flag
    new_epoch,          \* run_epoch's local
    is_def_beneficial,  \* run_epoch's local
    is_att_beneficial,  \* run_epoch's local
    def_port,           \* the port computed by run_train_test_*
    locks,              \* lock files: LockNames -> held?
    recorded_port,      \* the port recorded with the defender-train lock
    artifacts,          \* epochs whose add_new_data result file exists
    missing,            \* required directories and files that do not exist
    proc,               \* the subprocess.call child that is running, or "none"
    last_status,        \* exit status of the last child, "none" once ignored
    dispatch,           \* which run_train_test_* the run uses: none, both, all
    def_unit,           \* defender training unit: idle, running, ok, failed
    att_unit,           \* attacker training unit
    calls,              \* collaborator invocations of this run, in order
    epochs_run,         \* epochs passed to run_epoch in this run, in order
    error,              \* the fatal error main died with, or "none"
    report,             \* main's final message: none, converged, budget
    hist,               \* observations kept for the properties
    \* pas_experiments/fpsb_simulated_annealing.py,
    \* find_params_simulated_annealing_fpsb:
    anneal_pc,          \* position: idle, entry, loop, returned, raised
    param_count,        \* argument
    max_steps,          \* argument
    max_temp,           \* argument
    neighbor_variance,  \* argument
    initial_params,     \* argument, None or Some(vector)
    time_step,          \* the loop variable
    saved_params,       \* local
    saved_value,        \* local, None or Some(value)
    best_params,        \* local
    best_value,         \* local, None or Some(value)
    sample_calls,       \* the vectors sample_function was called with
    anneal_result,      \* the returned pair, None before the return
    anneal_error        \* the ValueError the call died with, or "none"

vars == <<pc, cur_epoch, max_new_rounds, max_timesteps_def, max_timesteps_att, my_epoch, rounds_left, should_continue,
          new_epoch, is_def_beneficial, is_att_beneficial, def_port, locks,
          recorded_port, artifacts, missing, proc, last_status, dispatch,
          def_unit, att_unit, calls, epochs_run, error, report, hist,
          anneal_pc, param_count, max_steps, max_temp, neighbor_variance,
          initial_params, time_step, saved_params, saved_value, best_params,
          best_value, sample_calls, anneal_result, anneal_error>>

annealArgs == <<param_count, max_steps, max_temp, neighbor_variance, initial_params>>
annealLocals == <<time_step, saved_params, saved_value, best_params, best_value>>
annealVars ==
    <<anneal_pc, annealArgs, annealLocals, sample_calls, anneal_result, anneal_error>>

mainLocals == <<my_epoch, rounds_left, should_continue>>
epochLocals == <<new_epoch, is_def_beneficial, is_att_beneficial, def_port>>
params == <<cur_epoch, max_new_rounds, max_timesteps_def, max_timesteps_att>>
external == <<locks, recorded_port, artifacts, missing>>
units == <<dispatch, def_unit, att_unit>>

Budgets == {None} \cup {Some(k) : k \in 0..MaxBudget}

\* hist: what the properties need to remember of the run.
\*   start_locks, start_port : external state when main started
\*   start_artifacts         : the result artifacts when main started
\*   acquisitions            : number of lock_def calls of this run
\*   chained                 : every read_def_port so far returned the port
\*                             allocated by the previous acquisition
\*   last_port               : the port allocated by the last acquisition
\*   read_port               : the port the last read_def_port returned
\*   handed                  : <<role, port, epoch>> for each training role
\*                             started in the current epoch
\*   acquired_held           : some lock_def found the lock already held
\*   waited_held             : wait_for_def_lock found the lock held and it
\*                             was released under it
\*   reported_epoch          : the epoch main's final message names, if it
\*                             has printed one
\*   returns                 : results of the run_epoch invocations of this run
\*   run                     : 1 for the first invocation of main, 2 after a restart
\*   converged_at            : the epoch at which the earlier run converged, if
\*                             it did (a set of at most one epoch)
InitHist(l, p, a) ==
    [start_locks |-> l, start_port |-> p, start_artifacts |-> a, acquisitions |-> 0, chained |-> TRUE,
     last_port |-> 0, read_port |-> 0, handed |-> {}, acquired_held |-> FALSE, waited_held |-> FALSE,
     reported_epoch |-> None,
     returns |-> <<>>, run |-> 1, converged_at |-> {}]

\* find_params_simulated_annealing_fpsb has not been called.
AnnealIdle ==
    /\ anneal_pc = "idle"
    /\ param_count = 0
    /\ max_steps = 0
    /\ max_temp = 0
    /\ neighbor_variance = 0
    /\ initial_params = None
    /\ time_step = 0
    /\ saved_params = <<>>
    /\ saved_value = None
    /\ best_params = <<>>
    /\ best_value = None
    /\ sample_calls = <<>>
    /\ anneal_result = None
    /\ anneal_error = "none"

\* main is entered with a round budget of the set budgets and training-step
\* budgets of the set timesteps (__main__, lines 240-251, passes on whatever
\* int() parsed).
InitArgs(budgets, timesteps) ==
    /\ pc = "check_for_files"
    /\ cur_epoch \in 0..MaxStartEpoch
    /\ max_new_rounds \in budgets
    /\ max_timesteps_def \in timesteps
    /\ max_timesteps_att \in timesteps
    /\ my_epoch = 0
    /\ rounds_left = None
    /\ should_continue = FALSE
    /\ new_epoch = 0
    /\ is_def_beneficial = FALSE
    /\ is_att_beneficial = FALSE
    /\ def_port = 0
    /\ locks \in [LockNames -> BOOLEAN]
    /\ recorded_port \in Ports
    /\ artifacts \in SUBSET (1..(MaxEpoch + 1))
    /\ missing \in MissingChoices
    /\ proc = "none"
    /\ last_status = "none"
    /\ dispatch = "none"
    /\ def_unit = "idle"
    /\ att_unit = "idle"
    /\ calls = <<>>
    /\ epochs_run = <<>>
    /\ error = "none"
    /\ report = "none"
    /\ hist = InitHist(locks, recorded_port, artifacts)

\* A run with a non-negative or absent round budget and one training step
\* for each player.
Init == InitArgs(Budgets, {1}) /\ AnnealIdle

\* ------------------------------------------------------------------ main
\* check_for_files: the first missing directory in list order, else the first
\* missing file in list order, else nothing.
FirstMissing(seq, miss) ==
    LET idx == {i \in 1..Len(seq) : seq[i] \in miss}
    IN  IF idx = {} THEN None
        ELSE Some(seq[CHOOSE i \in idx : \A j \in idx : i <= j])

\* check_for_files with its two loops in the other order
check_for_files_files_first ==
    IF FirstMissing(Files, missing) # None
        THEN "Missing file: " \o FirstMissing(Files, missing)[1]
    ELSE IF FirstMissing(Dirs, missing) # None
        THEN "Missing directory: " \o FirstMissing(Dirs, missing)[1]
    ELSE "none"

\* check_for_files, lines 19-36
check_for_files ==
    IF FirstMissing(Dirs, missing) # None
        THEN "Missing directory: " \o FirstMissing(Dirs, missing)[1]
    ELSE IF FirstMissing(Files, missing) # None
        THEN "Missing file: " \o FirstMissing(Files, missing)[1]
    ELSE "none"

is_def_unlocked(l, is_train) == ~l[IF is_train THEN "def_train" ELSE "def_test"]
is_att_unlocked(l, is_train) == ~l[IF is_train THEN "att_train" ELSE "att_test"]

\* are_all_locks_unlocked without its last conjunct
are_all_locks_unlocked_three(l) ==
    /\ is_def_unlocked(l, TRUE)
    /\ is_def_unlocked(l, FALSE)
    /\ is_att_unlocked(l, TRUE)

are_all_locks_unlocked(l) ==
    /\ is_def_unlocked(l, TRUE)
    /\ is_def_unlocked(l, FALSE)
    /\ is_att_unlocked(l, TRUE)
    /\ is_att_unlocked(l, FALSE)

\* main, line 186
MainCheckFiles ==
    /\ pc = "check_for_files"
    /\ IF check_for_files = "none"
         THEN pc' = "check_locks" /\ error' = error
         ELSE pc' = "aborted" /\ error' = check_for_files
    /\ UNCHANGED <<annealVars, params, mainLocals, epochLocals, external, proc, last_status,
                   units, calls, epochs_run, report, hist>>

\* main, lines 187-192
MainCheckLocks ==
    /\ pc = "check_locks"
    /\ IF are_all_locks_unlocked(locks)
         THEN /\ pc' = "loop"
              /\ should_continue' = TRUE
              /\ my_epoch' = cur_epoch
              /\ rounds_left' = max_new_rounds
              /\ error' = error
         ELSE /\ pc' = "aborted"
              /\ error' = "Lock is being held"
              /\ UNCHANGED mainLocals
    /\ UNCHANGED <<annealVars, params, epochLocals, external, proc, last_status, units, calls,
                   epochs_run, report, hist>>

\* the loop condition with the budget test off by one
LoopCondition_inclusive(sc, rl) == sc /\ (rl = None \/ rl[1] >= 0)

\* main, line 193: the loop condition
LoopCondition(sc, rl) == sc /\ (rl = None \/ rl[1] > 0)

\* The largest epoch run_epoch is entered with: MaxEpoch when the budget is
\* None; with a budget, a bound the counter of a budgeted run stays below, as
\* at most MaxBudget rounds follow a start epoch of at most MaxStartEpoch.
EpochCap(rl) == IF rl = None THEN MaxEpoch ELSE MaxStartEpoch + MaxBudget

\* the final message without its else branch
ReportOf_always_converged(sc) == "converged"

\* main, lines 205-210: which of the two final messages is printed
ReportOf(sc) == IF ~sc THEN "converged" ELSE "budget"

\* main, lines 193-200 and 205-210: either run_epoch is entered with my_epoch
\* (line 124 computes new_epoch), or the loop ends and main prints its report.
\* The epoch counter is capped by EpochCap.
MainLoop ==
    /\ pc = "loop"
    /\ IF LoopCondition(should_continue, rounds_left)
         THEN /\ my_epoch <= EpochCap(rounds_left)
              /\ pc' = "check_not_run"
              /\ new_epoch' = my_epoch + 1
              /\ is_def_beneficial' = FALSE
              /\ is_att_beneficial' = FALSE
              /\ def_port' = 0
              /\ dispatch' = dispatch
              /\ def_unit' = "idle"
              /\ att_unit' = "idle"
              /\ epochs_run' = Append(epochs_run, my_epoch)
              /\ report' = report
              /\ hist' = [hist EXCEPT !.handed = {}]
         ELSE /\ pc' = "done"
              /\ report' = ReportOf(should_continue)
              /\ hist' = [hist EXCEPT !.reported_epoch = Some(my_epoch)]
              /\ UNCHANGED <<epochLocals, units, epochs_run>>
    /\ UNCHANGED <<annealVars, params, mainLocals, external, proc, last_status, calls, error>>

\* ------------------------------------------------------------- run_epoch
\* the duplicate test applied to cur_epoch's result file instead of new_epoch's
AlreadyRun_cur(e, arts) == (e - 1) \in arts

\* run_epoch, lines 125-129
AlreadyRun(e, arts) == e \in arts

CheckNotAlreadyRun ==
    /\ pc = "check_not_run"
    /\ IF AlreadyRun(new_epoch, artifacts)
         THEN pc' = "aborted" /\ error' = "already exists"
         ELSE pc' = "run_gambit" /\ error' = error
    /\ UNCHANGED <<annealVars, params, mainLocals, epochLocals, external, proc, last_status,
                   units, calls, epochs_run, report, hist>>

\* The stages run_epoch runs with subprocess.call, by the position of the call.
CallStages == {"run_gambit", "run_create_tsv", "run_update_strats",
               "run_gen_both_payoffs", "run_gen_new_cols", "run_append_net_names",
               "run_add_new_data"}

\* The script each run_* helper launches (lines 38-56, 101-118).
StageScript(p) ==
    CASE p = "run_gambit" -> "gambit_analyze.py"
      [] p = "run_create_tsv" -> "create_tsv_files.py"
      [] p = "run_update_strats" -> "update_opponent_strats.py"
      [] p = "run_gen_both_payoffs" -> "get_both_payoffs_from_game.py"
      [] p = "run_gen_new_cols" -> "generate_new_cols.py"
      [] p = "run_append_net_names" -> "append_net_names.py"
      [] p = "run_add_new_data" -> "add_new_data.py"

\* the opponent updater of line 139 tagged with cur_epoch
StageEpoch_update_cur(p, cur, new) ==
    IF p \in {"run_gambit", "run_create_tsv", "run_update_strats"} THEN cur ELSE new

\* The epoch argument run_epoch passes to each helper (lines 134-176).
StageEpoch(p, cur, new) ==
    IF p \in {"run_gambit", "run_create_tsv"} THEN cur ELSE new

\* the calls of lines 136 and 139 in the opposite order
StageNext_swapped(p) ==
    CASE p = "run_gambit" -> "run_update_strats"
      [] p = "run_update_strats" -> "run_create_tsv"
      [] p = "run_create_tsv" -> "run_gen_both_payoffs"
      [] p = "run_gen_both_payoffs" -> "run_train_test"
      [] p = "run_gen_new_cols" -> "run_append_net_names"
      [] p = "run_append_net_names" -> "run_add_new_data"
      [] p = "run_add_new_data" -> "return_true"

\* The statement that follows each helper call in run_epoch.
StageNext(p) ==
    CASE p = "run_gambit" -> "run_create_tsv"
      [] p = "run_create_tsv" -> "run_update_strats"
      [] p = "run_update_strats" -> "run_gen_both_payoffs"
      [] p = "run_gen_both_payoffs" -> "run_train_test"
      [] p = "run_gen_new_cols" -> "run_append_net_names"
      [] p = "run_append_net_names" -> "run_add_new_data"
      [] p = "run_add_new_data" -> "return_true"

\* subprocess.call(cmd_list): the child is started ...
CallStage ==
    /\ pc \in CallStages
    /\ proc = "none"
    /\ proc' = StageScript(pc)
    /\ calls' = Append(calls, <<StageScript(pc), StageEpoch(pc, my_epoch, new_epoch)>>)
    /\ last_status' = "none"
    /\ UNCHANGED <<annealVars, pc, params, mainLocals, epochLocals, external, units, epochs_run,
                   error, report, hist>>

\* What a run of a script leaves of the result files: add_new_data.py writes
\* the result file of its epoch, and a failed run of it may or may not have
\* written it; no other script touches the result files.
ResultFilesAfter(script, st, arts, e) ==
    IF script = "add_new_data.py"
      THEN IF st = "ok" THEN {arts \cup {e}} ELSE {arts \cup {e}, arts}
      ELSE {arts}

\* the exit status looked at: a failed child ends main
ExitStage_checked ==
    /\ pc \in CallStages
    /\ proc # "none"
    /\ \E st \in {"ok", "failed"} :
         /\ last_status' = st
         /\ artifacts' \in ResultFilesAfter(proc, st, artifacts, new_epoch)
         /\ pc' = IF st = "ok" THEN StageNext(pc) ELSE "aborted"
         /\ error' = IF st = "ok" THEN error ELSE "stage failed"
    /\ proc' = "none"
    /\ UNCHANGED <<annealVars, params, mainLocals, epochLocals, locks, recorded_port, missing,
                   units, calls, epochs_run, report, hist>>

\* ... and the caller resumes when it has exited; the exit status that
\* subprocess.call returns is dropped.
ExitStage ==
    /\ pc \in CallStages
    /\ proc # "none"
    /\ \E st \in {"ok", "failed"} :
         /\ last_status' = st
         /\ artifacts' \in ResultFilesAfter(proc, st, artifacts, new_epoch)
    /\ proc' = "none"
    /\ pc' = StageNext(pc)
    /\ UNCHANGED <<annealVars, params, mainLocals, epochLocals, locks, recorded_port, missing,
                   units, calls, epochs_run, error, report, hist>>

\* --------------------------------------------- run_train_test_both / _all
\* run_epoch, line 149, calls run_train_test_both; run_train_test_all (line 73)
\* has the same signature and the same first seven statements and is the other
\* dispatch mode.  A run goes through one of the two in all its epochs, chosen
\* when the train-and-test stage is first reached.
EnterTrainTest ==
    /\ pc = "run_train_test"
    /\ dispatch' \in (IF dispatch = "none" THEN {"both", "all"} ELSE {dispatch})
    /\ pc' = "wait_for_def_lock"
    /\ last_status' = "none"
    /\ UNCHANGED <<annealVars, params, mainLocals, epochLocals, external, proc, def_unit,
                   att_unit, calls, epochs_run, error, report, hist>>

\* run_train_test_* without its call of wait_for_def_lock
WaitForDefLock_skipped ==
    /\ pc = "wait_for_def_lock"
    /\ pc' = "lock_def"
    /\ UNCHANGED <<annealVars, params, mainLocals, epochLocals, external, proc, last_status,
                   units, calls, epochs_run, error, report, hist>>

\* lines 62 and 77: wait_for_def_lock(port_lock_name, True) returns once the
\* defender-train lock is free.
WaitForDefLock ==
    /\ pc = "wait_for_def_lock"
    /\ is_def_unlocked(locks, TRUE)
    /\ pc' = "lock_def"
    /\ UNCHANGED <<annealVars, params, mainLocals, epochLocals, external, proc, last_status,
                   units, calls, epochs_run, error, report, hist>>

\* lines 63 and 78: lock_def(port_lock_name, True)
lock_def(l) == [l EXCEPT !["def_train"] = TRUE]

LockDef ==
    /\ pc = "lock_def"
    /\ locks' = lock_def(locks)
    /\ hist' = [hist EXCEPT !.acquisitions = @ + 1,
                            !.acquired_held = @ \/ locks["def_train"]]
    /\ pc' = "read_def_port"
    /\ UNCHANGED <<annealVars, params, mainLocals, epochLocals, recorded_port, artifacts, missing,
                   proc, last_status, units, calls, epochs_run, error, report>>

\* the advance of lines 65 and 80 without the wrap of lines 66-67 and 81-82
NextPort_nowrap(p) == p + PORTS_PER_ROUND

\* the wrap test of lines 66 and 81 with > for >=
NextPort_gt(p) ==
    IF p + PORTS_PER_ROUND > MAX_PORT THEN MIN_PORT ELSE p + PORTS_PER_ROUND

\* lines 65-67 and 80-82: advance the port by the stride and wrap
NextPort(p) ==
    IF p + PORTS_PER_ROUND >= MAX_PORT THEN MIN_PORT ELSE p + PORTS_PER_ROUND

\* lines 64-67 and 79-82: read_def_port, then the advance
ReadDefPort ==
    /\ pc = "read_def_port"
    /\ def_port' = NextPort(recorded_port)
    /\ hist' = [hist EXCEPT !.chained =
                   @ /\ (hist.acquisitions = 1 \/ recorded_port = hist.last_port),
                            !.last_port = NextPort(recorded_port),
                            !.read_port = recorded_port]
    /\ pc' = IF dispatch = "both" THEN "run_both" ELSE "popen_def"
    /\ UNCHANGED <<annealVars, params, mainLocals, new_epoch, is_def_beneficial, is_att_beneficial,
                   external, proc, last_status, units, calls, epochs_run, error, report>>

\* lines 69-71: run_both(...) of train_test_both.py, which runs the defender
\* and the attacker role and returns when both are done.
RunBothCall ==
    /\ pc = "run_both"
    /\ def_unit = "idle" /\ att_unit = "idle"
    /\ def_unit' = "running"
    /\ att_unit' = "running"
    /\ calls' = Append(calls, <<"train_test_both.py", new_epoch>>)
    /\ hist' = [hist EXCEPT !.handed = {<<"def", def_port, new_epoch>>,
                                        <<"att", def_port, new_epoch>>}]
    /\ UNCHANGED <<annealVars, pc, params, mainLocals, epochLocals, external, proc, last_status,
                   dispatch, epochs_run, error, report>>

Finished(u) == u \in {"ok", "failed"}

\* run_train_test_* returns: its locals are gone.
RunBothReturn ==
    /\ pc = "run_both"
    /\ Finished(def_unit) /\ Finished(att_unit)
    /\ pc' = "check_def"
    /\ def_port' = 0
    /\ UNCHANGED <<annealVars, params, mainLocals, new_epoch, is_def_beneficial, is_att_beneficial,
                   external, proc, last_status, units, calls, epochs_run,
                   error, report, hist>>

\* lines 84-91: Popen of train_test_def.py
PopenDef ==
    /\ pc = "popen_def"
    /\ def_unit' = "running"
    /\ calls' = Append(calls, <<"train_test_def.py", new_epoch>>)
    /\ hist' = [hist EXCEPT !.handed = @ \cup {<<"def", def_port, new_epoch>>}]
    /\ pc' = "popen_att"
    /\ UNCHANGED <<annealVars, params, mainLocals, epochLocals, external, proc, last_status,
                   dispatch, att_unit, epochs_run, error, report>>

\* the attacker's command line built with the port as read, not as advanced
PopenAtt_stale_port ==
    /\ pc = "popen_att"
    /\ att_unit' = "running"
    /\ calls' = Append(calls, <<"train_test_att.py", new_epoch>>)
    /\ hist' = [hist EXCEPT !.handed = @ \cup {<<"att", hist.read_port, new_epoch>>}]
    /\ pc' = "wait_def"
    /\ UNCHANGED <<annealVars, params, mainLocals, epochLocals, external, proc, last_status,
                   dispatch, def_unit, epochs_run, error, report>>

\* lines 87-93: Popen of train_test_att.py
PopenAtt ==
    /\ pc = "popen_att"
    /\ att_unit' = "running"
    /\ calls' = Append(calls, <<"train_test_att.py", new_epoch>>)
    /\ hist' = [hist EXCEPT !.handed = @ \cup {<<"att", def_port, new_epoch>>}]
    /\ pc' = "wait_def"
    /\ UNCHANGED <<annealVars, params, mainLocals, epochLocals, external, proc, last_status,
                   dispatch, def_unit, epochs_run, error, report>>

\* line 95: process_train_def.wait()
WaitDefGuard(d) == Finished(d)

\* the orchestrator freeing the defender-train lock itself once the
\* defender's process has ended
WaitDef_releases ==
    /\ pc = "wait_def"
    /\ WaitDefGuard(def_unit)
    /\ locks' = [locks EXCEPT !["def_train"] = FALSE]
    /\ pc' = "wait_att"
    /\ UNCHANGED <<annealVars, params, mainLocals, epochLocals, recorded_port, artifacts,
                   missing, proc, last_status, units, calls, epochs_run, error, report,
                   hist>>

WaitDef ==
    /\ pc = "wait_def"
    /\ WaitDefGuard(def_unit)
    /\ pc' = "wait_att"
    /\ UNCHANGED <<annealVars, params, mainLocals, epochLocals, external, proc, last_status,
                   units, calls, epochs_run, error, report, hist>>

\* line 96 left out: the attacker unit is not waited for
WaitAttGuard_none(a) == TRUE

\* line 96: process_train_att.wait()
WaitAttGuard(a) == Finished(a)

WaitAtt ==
    /\ pc = "wait_att"
    /\ WaitAttGuard(att_unit)
    /\ pc' = "check_def"
    /\ def_port' = 0
    /\ UNCHANGED <<annealVars, params, mainLocals, new_epoch, is_def_beneficial, is_att_beneficial,
                   external, proc, last_status, units, calls, epochs_run,
                   error, report, hist>>

\* The defender training unit ends.  A successful unit has recorded the port it
\* was given and released the defender-train lock; a failed one may have done
\* either, both or neither.
DefUnitExit ==
    /\ def_unit = "running"
    /\ \E st \in {"ok", "failed"} :
         /\ def_unit' = st
         /\ \/ recorded_port' = def_port
            \/ st = "failed" /\ recorded_port' = recorded_port
         /\ \/ locks' = [locks EXCEPT !["def_train"] = FALSE]
            \/ st = "failed" /\ locks' = locks
    /\ UNCHANGED <<annealVars, pc, params, mainLocals, epochLocals, artifacts, missing, proc,
                   last_status, dispatch, att_unit, calls, epochs_run, error, report,
                   hist>>

\* The attacker training unit ends.
AttUnitExit ==
    /\ att_unit = "running"
    /\ \E st \in {"ok", "failed"} : att_unit' = st
    /\ UNCHANGED <<annealVars, pc, params, mainLocals, epochLocals, external, proc, last_status,
                   dispatch, def_unit, calls, epochs_run, error, report, hist>>

\* ------------------------------------------------- run_epoch, lines 153-179
\* line 154: check.check_for_cli(env_short_name_payoffs, new_epoch, True)
CheckDef ==
    /\ pc = "check_def"
    /\ \E b \in BOOLEAN : is_def_beneficial' = b
    /\ calls' = Append(calls, <<"check_for_cli(def)", new_epoch>>)
    /\ pc' = "check_att"
    /\ UNCHANGED <<annealVars, params, mainLocals, new_epoch, is_att_beneficial, def_port,
                   external, proc, last_status, units, epochs_run, error, report, hist>>

\* line 156: check.check_for_cli(env_short_name_payoffs, new_epoch, False).
\* The two training units have been reaped by now and are forgotten.
CheckAtt ==
    /\ pc = "check_att"
    /\ \E b \in BOOLEAN : is_att_beneficial' = b
    /\ calls' = Append(calls, <<"check_for_cli(att)", new_epoch>>)
    /\ def_unit' = "idle"
    /\ att_unit' = "idle"
    /\ pc' = "decide"
    /\ UNCHANGED <<annealVars, params, mainLocals, new_epoch, is_def_beneficial, def_port,
                   external, proc, last_status, dispatch, epochs_run, error, report,
                   hist>>

\* the convergence test looking at the defender's flag alone
Converged_def_only(d, a) == ~d

\* line 158: the convergence test
Converged(d, a) == ~d /\ ~a

\* run_epoch marking a converged epoch with the result file of new_epoch
Decide_marks_converged ==
    /\ pc = "decide"
    /\ IF Converged(is_def_beneficial, is_att_beneficial)
         THEN /\ should_continue' = FALSE
              /\ pc' = "after_epoch"
              /\ artifacts' = artifacts \cup {new_epoch}
              /\ hist' = [hist EXCEPT !.returns = Append(@, "stop")]
         ELSE /\ pc' = "run_gen_new_cols"
              /\ UNCHANGED <<should_continue, artifacts, hist>>
    /\ UNCHANGED <<annealVars, params, my_epoch, rounds_left, epochLocals, locks, recorded_port,
                   missing, proc, last_status, units, calls, epochs_run, error, report>>

\* lines 158-161: "return False" ends run_epoch, and main (line 196) stores the
\* result in should_continue; otherwise the epoch goes on with line 163.
Decide ==
    /\ pc = "decide"
    /\ IF Converged(is_def_beneficial, is_att_beneficial)
         THEN /\ should_continue' = FALSE
              /\ pc' = "after_epoch"
              /\ hist' = [hist EXCEPT !.returns = Append(@, "stop")]
         ELSE /\ pc' = "run_gen_new_cols"
              /\ UNCHANGED <<should_continue, hist>>
    /\ UNCHANGED <<annealVars, params, my_epoch, rounds_left, epochLocals, external, proc,
                   last_status, units, calls, epochs_run, error, report>>

\* line 179: "return True", stored in should_continue by main (line 196)
ReturnTrue ==
    /\ pc = "return_true"
    /\ should_continue' = TRUE
    /\ last_status' = "none"
    /\ hist' = [hist EXCEPT !.returns = Append(@, "continue")]
    /\ pc' = "after_epoch"
    /\ UNCHANGED <<annealVars, params, my_epoch, rounds_left, epochLocals, external, proc,
                   units, calls, epochs_run, error, report>>

\* the increment of line 202 outside its "if"
EpochAfter_always(sc, e) == e + 1

\* the remaining budget without its decrement
RoundsAfter_keep(sc, rl) == rl

\* the decrement of line 204 outside the test of line 201
RoundsAfter_always(sc, rl) == IF rl # None THEN Some(rl[1] - 1) ELSE rl

\* main, lines 201-204
EpochAfter(sc, e) == IF sc THEN e + 1 ELSE e
RoundsAfter(sc, rl) == IF sc /\ rl # None THEN Some(rl[1] - 1) ELSE rl

\* main goes on after run_epoch has returned; the flags, locals of run_epoch,
\* are gone.
AfterEpoch ==
    /\ pc = "after_epoch"
    /\ my_epoch' = EpochAfter(should_continue, my_epoch)
    /\ rounds_left' = RoundsAfter(should_continue, rounds_left)
    /\ is_def_beneficial' = FALSE
    /\ is_att_beneficial' = FALSE
    /\ pc' = "loop"
    /\ UNCHANGED <<annealVars, params, should_continue, new_epoch, def_port, external, proc,
                   last_status, units, calls, epochs_run, error, report, hist>>

Next ==
    \/ MainCheckFiles
    \/ MainCheckLocks
    \/ MainLoop
    \/ CheckNotAlreadyRun
    \/ CallStage
    \/ ExitStage
    \/ EnterTrainTest
    \/ WaitForDefLock
    \/ LockDef
    \/ ReadDefPort
    \/ RunBothCall
    \/ RunBothReturn
    \/ PopenDef
    \/ PopenAtt
    \/ WaitDef
    \/ WaitAtt
    \/ DefUnitExit
    \/ AttUnitExit
    \/ CheckDef
    \/ CheckAtt
    \/ Decide
    \/ ReturnTrue
    \/ AfterEpoch

Spec == Init /\ [][Next]_vars

\* ------------------------------------------------- a second invocation
\* The orchestrator is started again after a run that ended normally, with the
\* same budget and a start epoch up to the one the first run ended at; lock
\* files, recorded port, artifacts and seed files are as the first run left
\* them.
Restart ==
    /\ pc = "done"
    /\ hist.run = 1
    /\ cur_epoch' \in 0..my_epoch
    /\ pc' = "check_for_files"
    /\ my_epoch' = 0
    /\ rounds_left' = None
    /\ should_continue' = FALSE
    /\ new_epoch' = 0
    /\ calls' = <<>>
    /\ epochs_run' = <<>>
    /\ error' = "none"
    /\ report' = "none"
    /\ hist' = [InitHist(locks, recorded_port, artifacts) EXCEPT
                   !.run = 2,
                   !.converged_at = IF report = "converged" THEN {my_epoch} ELSE {}]
    /\ dispatch' = "none"
    /\ UNCHANGED <<annealVars, max_new_rounds, max_timesteps_def, max_timesteps_att, is_def_beneficial, is_att_beneficial, def_port,
                   external, proc, last_status, def_unit, att_unit>>

\* The first run starts with its startup checks passing and the recorded port
\* at the bottom of the range.
InitRestart ==
    /\ Init
    /\ missing = {}
    /\ are_all_locks_unlocked(locks)
    /\ recorded_port = MIN_PORT

NextRestart == Next \/ Restart

SpecRestart == InitRestart /\ [][NextRestart]_vars

\* ------------------------------------------- the run under fair scheduling
\* While the orchestrator polls in wait_for_def_lock, whoever holds the
\* defender-train lock (a training unit that died with it, another program)
\* gives it up.
ExternalRelease ==
    /\ pc = "wait_for_def_lock"
    /\ locks["def_train"]
    /\ locks' = [locks EXCEPT !["def_train"] = FALSE]
    /\ hist' = [hist EXCEPT !.waited_held = TRUE]
    /\ UNCHANGED <<annealVars, pc, params, mainLocals, epochLocals, recorded_port, artifacts,
                   missing, proc, last_status, units, calls, epochs_run, error,
                   report>>

\* The steps of the orchestrator's own thread: main and run_epoch are
\* sequential code, so a step that can be taken is taken.
OrchestratorStep ==
    \/ MainCheckFiles \/ MainCheckLocks \/ MainLoop \/ CheckNotAlreadyRun
    \/ CallStage \/ EnterTrainTest \/ WaitForDefLock \/ LockDef \/ ReadDefPort
    \/ RunBothCall \/ RunBothReturn \/ PopenDef \/ PopenAtt \/ WaitDef \/ WaitAtt
    \/ CheckDef \/ CheckAtt \/ Decide \/ ReturnTrue \/ AfterEpoch

NextFair == Next \/ ExternalRelease

\* Every collaborator that was started exits, and a held defender-train lock
\* the orchestrator waits on is released.
Fairness ==
    /\ WF_vars(OrchestratorStep)
    /\ WF_vars(ExitStage)
    /\ WF_vars(DefUnitExit)
    /\ WF_vars(AttUnitExit)
    /\ WF_vars(ExternalRelease)

\* Termination does not depend on the port the run starts with.
InitFair == Init /\ recorded_port = MIN_PORT

SpecFair == InitFair /\ [][NextFair]_vars /\ Fairness

\* ------------------------------------------ any integers as the arguments
\* The command line's three numeric arguments are any integers int() accepts:
\* round budgets below zero and training-step budgets that are not positive
\* as well. The run starts at epoch 0 and its startup checks pass.
BudgetArgs == Budgets \cup {Some(0 - 1)}
TimestepArgs == {0 - 1, 0, 1}

InitAnyArgs ==
    /\ InitArgs(BudgetArgs, TimestepArgs)
    /\ AnnealIdle
    /\ cur_epoch = 0
    /\ missing = {}
    /\ are_all_locks_unlocked(locks)
    /\ recorded_port = MIN_PORT
    /\ artifacts = {}

SpecAnyArgs == InitAnyArgs /\ [][Next]_vars

\* ------------------------------------ find_params_simulated_annealing_fpsb
\* Parameters, variances and temperatures are fixed-point numbers in units of
\* 1/Scale, one decimal digit more than fmt = "{0:.4f}" (line 52) keeps.
Scale == 100000

\* line 57: float(fmt.format(x)), x rounded to four decimals
Round4(x) == ((x + 5) \div 10) * 10

\* simulated_annealing.neighbor_truncated_gaussian is not part of the sources:
\* it yields some point of the open unit interval, here one just above and
\* one just below a multiple of 1/10000.
Neighbors == {20004, 79996}

\* The mean results sample_function may return.
SampleValues == {1, 2}

\* simulated_annealing.should_switch_params is not part of the sources: the
\* first point and a better point are taken, a worse or equal one is taken or
\* not (with a probability that depends on the temperature).
should_switch_params(saved, cur) ==
    IF saved = None \/ cur > saved[1] THEN {TRUE} ELSE BOOLEAN

\* The initial_params a caller may pass: None, or a vector of any length up
\* to MaxParams of the midpoint, or a vector with a value on the border.
InitialParamChoices ==
    {None} \cup {Some([i \in 1..n |-> Scale \div 2]) : n \in 0..MaxParams}
           \cup {Some(<<0>>), Some(<<Scale>>)}

\* The orchestrator's variables while only the annealer is looked at.
RunnerIdle ==
    /\ InitArgs({None}, {1})
    /\ cur_epoch = 0
    /\ locks = [n \in LockNames |-> FALSE]
    /\ recorded_port = MIN_PORT
    /\ artifacts = {}
    /\ missing = {}

runnerVars ==
    <<pc, params, mainLocals, epochLocals, external, proc, last_status, units,
      calls, epochs_run, error, report, hist>>

\* lines 30-42: the ValueError the arguments are rejected with, or "none"
AnnealCheckArgs ==
    IF param_count < 1 THEN "param_count must be >= 1"
    ELSE IF max_steps < 1 THEN "max_steps must be >= 1"
    ELSE IF max_temp <= 0 THEN "max_temp must be > 0"
    ELSE IF neighbor_variance <= 0 \/ neighbor_variance >= Scale
        THEN "neighbor_variance must be in (0, 1)"
    ELSE IF initial_params # None /\ Len(initial_params[1]) # param_count
        THEN "initial_params has wrong length"
    ELSE IF /\ initial_params # None
            /\ \E i \in DOMAIN initial_params[1] :
                   initial_params[1][i] <= 0 \/ initial_params[1][i] >= Scale
        THEN "initial_params has invalid value"
    ELSE "none"

\* The function is called with any arguments.
InitAnneal ==
    /\ RunnerIdle
    /\ anneal_pc = "entry"
    /\ param_count \in 0..MaxParams
    /\ max_steps \in 0..MaxSteps
    /\ max_temp \in {0, 1}
    /\ neighbor_variance \in {0, Scale \div 2, Scale}
    /\ initial_params \in InitialParamChoices
    /\ time_step = 0
    /\ saved_params = <<>>
    /\ saved_value = None
    /\ best_params = <<>>
    /\ best_value = None
    /\ sample_calls = <<>>
    /\ anneal_result = None
    /\ anneal_error = "none"

\* lines 30-51: the arguments are checked; saved_params starts as
\* initial_params or as a random vector of param_count components
AnnealEnter ==
    /\ anneal_pc = "entry"
    /\ IF AnnealCheckArgs # "none"
         THEN /\ anneal_pc' = "raised"
              /\ anneal_error' = AnnealCheckArgs
              /\ UNCHANGED annealLocals
         ELSE /\ anneal_pc' = "loop"
              /\ anneal_error' = anneal_error
              /\ saved_params' = IF initial_params = None
                                   THEN [i \in 1..param_count |-> Scale \div 2]
                                   ELSE initial_params[1]
              /\ saved_value' = None
              /\ best_params' = saved_params'
              /\ best_value' = None
              /\ time_step' = 0
    /\ UNCHANGED <<runnerVars, annealArgs, sample_calls, anneal_result>>

\* lines 55-57: of the neighbour generated for each component of
\* saved_params, the first component, rounded, is the vector handed on
CurNeighbor(nb) == <<Round4(nb[1])>>

\* lines 53-64: one trial
AnnealStep ==
    /\ anneal_pc = "loop"
    /\ time_step < max_steps
    /\ \E nb \in [DOMAIN saved_params -> Neighbors], cur_mean_result \in SampleValues :
         LET cur_neighbor == CurNeighbor(nb)
             better == best_value = None \/ cur_mean_result > best_value[1]
         IN  /\ sample_calls' = Append(sample_calls, cur_neighbor)
             /\ best_params' = IF better THEN cur_neighbor ELSE best_params
             /\ best_value' = IF better THEN Some(cur_mean_result) ELSE best_value
             /\ \E switch \in should_switch_params(saved_value, cur_mean_result) :
                   /\ saved_params' = IF switch THEN cur_neighbor ELSE saved_params
                   /\ saved_value' = IF switch THEN Some(cur_mean_result)
                                      ELSE saved_value
    /\ time_step' = time_step + 1
    /\ UNCHANGED <<runnerVars, anneal_pc, annealArgs, anneal_result, anneal_error>>

\* line 73: return best_params, best_value
ReturnValue(sp, sv, bp, bv) == <<bp, bv>>

\* lines 69-73: the loop is over
AnnealReturn ==
    /\ anneal_pc = "loop"
    /\ time_step >= max_steps
    /\ anneal_pc' = "returned"
    /\ anneal_result' = Some(ReturnValue(saved_params, saved_value,
                                         best_params, best_value))
    /\ UNCHANGED <<runnerVars, annealArgs, annealLocals, sample_calls, anneal_error>>

NextAnneal == AnnealEnter \/ AnnealStep \/ AnnealReturn

SpecAnneal == InitAnneal /\ [][NextAnneal]_vars

\* ======================================================== properties
Last(q) == q[Len(q)]
CallCount(script, e) == Cardinality({i \in DOMAIN calls : calls[i] = <<script, e>>})
Count(q, x) == Cardinality({i \in DOMAIN q : q[i] = x})
AnyHeld(l) == \E n \in LockNames : l[n]

\* The positions of run_epoch after the duplicate-epoch check and before its
\* return.
EpochBodyPcs ==
    CallStages \cup {"run_train_test", "wait_for_def_lock", "lock_def",
                     "read_def_port", "run_both", "popen_def", "popen_att",
                     "wait_def", "wait_att", "check_def", "check_att", "decide"}

\* C1: whatever the combination of the four locks, if one of them is held when
\* main starts, main never gets past its startup checks: no collaborator is
\* invoked, run_epoch is not entered, no lock is acquired, the recorded port
\* and the lock files are as they were, the epoch counter is not set, and the
\* only way main ends is with a fatal error.
C1_HeldLockAborts ==
    AnyHeld(hist.start_locks) =>
        /\ pc \in {"check_for_files", "check_locks", "aborted"}
        /\ pc = "aborted" => error # "none" /\ error # "already exists"
        /\ calls = <<>>
        /\ epochs_run = <<>>
        /\ proc = "none" /\ def_unit = "idle" /\ att_unit = "idle"
        /\ hist.acquisitions = 0
        /\ locks = hist.start_locks
        /\ recorded_port = hist.start_port
        /\ my_epoch = 0 /\ rounds_left = None /\ ~should_continue

\* C1 witness: main died of the held-lock error with only the attacker-test
\* lock held.
C1_Witness ==
    /\ pc = "aborted"
    /\ error = "Lock is being held"
    /\ hist.start_locks = [n \in LockNames |-> n = "att_test"]

\* C2: while run_epoch is past its duplicate-epoch check the result artifact of
\* new_epoch does not exist (so an epoch whose artifact existed on entry ran no
\* stage); and when main has died of the duplicate-epoch error, in the first
\* or a later iteration, the artifact is still there, no collaborator was
\* invoked for that epoch, and the defender-train lock was neither waited on
\* nor acquired in it.
C2_DuplicateEpochAborts ==
    /\ pc \in EpochBodyPcs => new_epoch \notin artifacts
    /\ error = "already exists" =>
        /\ pc = "aborted"
        /\ epochs_run # <<>>
        /\ new_epoch = Last(epochs_run) + 1
        /\ new_epoch \in artifacts
        /\ \A i \in DOMAIN calls :
              /\ calls[i][2] # new_epoch
              /\ calls[i] # <<"gambit_analyze.py", Last(epochs_run)>>
              /\ calls[i] # <<"create_tsv_files.py", Last(epochs_run)>>
        /\ hist.acquisitions = Len(epochs_run) - 1
        /\ proc = "none" /\ def_unit # "running" /\ att_unit # "running"

\* C2 witness: the duplicate-epoch error in the second iteration of the loop.
C2_Witness ==
    /\ error = "already exists"
    /\ Len(epochs_run) = 2
    /\ Len(calls) > 0

\* The scripts of the column expander, the name appender and the data ingester.
Stage9to11 == {"generate_new_cols.py", "append_net_names.py", "add_new_data.py"}

\* C3: when run_epoch returns, it returns "stop" exactly if both deviation
\* flags are false; after a "stop" no column expander, name appender or data
\* ingester has been invoked for that epoch, nothing is invoked any more and no
\* further epoch is entered; after a "continue" each of the three has been
\* invoked once for that epoch.
C3_StopSkipsExpansion ==
    /\ pc = "after_epoch" =>
          (should_continue <=> (is_def_beneficial \/ is_att_beneficial))
    /\ pc = "after_epoch" =>
          Last(hist.returns) = (IF should_continue THEN "continue" ELSE "stop")
    /\ pc \in {"run_gen_new_cols", "run_append_net_names", "run_add_new_data",
               "return_true"} => (is_def_beneficial \/ is_att_beneficial)
    /\ \A i \in DOMAIN hist.returns :
          IF hist.returns[i] = "stop"
            THEN /\ i = Len(hist.returns)
                 /\ Len(epochs_run) = i
                 /\ pc \in {"after_epoch", "loop", "done"}
                 /\ proc = "none"
                 /\ ~should_continue
                 /\ \A sc \in Stage9to11 : CallCount(sc, epochs_run[i] + 1) = 0
            ELSE \A sc \in Stage9to11 : CallCount(sc, epochs_run[i] + 1) = 1

\* C3 witness: a run that continued once and then stopped has ended.
C3_Witness ==
    /\ pc = "done"
    /\ hist.returns = <<"continue", "stop">>

\* C4: with a budget of k rounds run_epoch is entered at most k times (never
\* when k = 0); without a budget main ends normally only by convergence.
C4_BudgetBoundsEpochs ==
    /\ max_new_rounds # None => Len(epochs_run) <= max_new_rounds[1]
    /\ (max_new_rounds = None /\ pc = "done") =>
          /\ report = "converged"
          /\ hist.returns # <<>>
          /\ Last(hist.returns) = "stop"

\* C4 witness: a budget of 2 used up by two epochs that both continued.
C4_Witness ==
    /\ pc = "done"
    /\ max_new_rounds = Some(2)
    /\ hist.returns = <<"continue", "continue">>
    /\ report = "budget"

\* main has passed its startup checks.
LoopReached ==
    /\ pc \notin {"check_for_files", "check_locks"}
    /\ pc = "aborted" => error = "already exists"

\* C5: once the loop has been reached, the epoch counter is the start epoch
\* plus the number of run_epoch invocations that returned "continue" (the
\* increment for the last result being applied by the statement after the
\* call), so it never decreases and a "stop" leaves it alone; the i-th
\* run_epoch invocation gets epoch cur_epoch + i - 1.
C5_EpochCounter ==
    /\ LoopReached =>
          my_epoch = cur_epoch + Count(hist.returns, "continue")
                       - (IF pc = "after_epoch" /\ should_continue THEN 1 ELSE 0)
    /\ \A i \in DOMAIN epochs_run : epochs_run[i] = cur_epoch + i - 1
    /\ pc \in EpochBodyPcs \cup {"check_not_run"} =>
          Last(epochs_run) = my_epoch /\ new_epoch = my_epoch + 1

\* C5 witness: one "continue", then a "stop": the counter ends one above the
\* start epoch.
C5_Witness ==
    /\ pc = "done"
    /\ hist.returns = <<"continue", "stop">>
    /\ my_epoch = cur_epoch + 1
    /\ epochs_run = <<cur_epoch, cur_epoch + 1>>

\* C6: in either dispatch mode the deviation checks are invoked only when both
\* training units have ended, successfully or not; while a unit is running,
\* also when the other one has already ended or failed, the orchestrator is
\* inside the train-and-test stage and no deviation check of the epoch has
\* been invoked.
C6_JoinBeforeDeviationCheck ==
    /\ pc \in {"check_def", "check_att"} => Finished(def_unit) /\ Finished(att_unit)
    /\ (def_unit = "running" \/ att_unit = "running") =>
          /\ pc \in {"run_both", "popen_att", "wait_def", "wait_att"}
          /\ CallCount("check_for_cli(def)", new_epoch) = 0
          /\ CallCount("check_for_cli(att)", new_epoch) = 0
    /\ {def_unit, att_unit} \subseteq {"idle", "running", "ok", "failed"}

\* C6 witness: the defender unit failed, the attacker unit, launched on its
\* own, ended later, and the defender's deviation check is about to be invoked.
C6_Witness ==
    /\ pc = "check_def"
    /\ def_unit = "failed"
    /\ att_unit = "ok"
    /\ CallCount("train_test_att.py", new_epoch) = 1

\* The invocations one epoch makes, in order, and the test that a call log is
\* made of them epoch by epoch.
TrainCalls(mode, e) ==
    IF mode = "both" THEN << <<"train_test_both.py", e>> >>
    ELSE << <<"train_test_def.py", e>>, <<"train_test_att.py", e>> >>

EpochCalls(e, mode, cont) ==
    << <<"gambit_analyze.py", e>>, <<"create_tsv_files.py", e>>,
       <<"update_opponent_strats.py", e + 1>>,
       <<"get_both_payoffs_from_game.py", e + 1>> >>
    \o TrainCalls(mode, e + 1)
    \o << <<"check_for_cli(def)", e + 1>>, <<"check_for_cli(att)", e + 1>> >>
    \o (IF cont THEN << <<"generate_new_cols.py", e + 1>>,
                        <<"append_net_names.py", e + 1>>,
                        <<"add_new_data.py", e + 1>> >>
        ELSE <<>>)

IsPrefix(a, b) == Len(a) <= Len(b) /\ SubSeq(b, 1, Len(a)) = a

RECURSIVE OrderedFrom(_, _)
OrderedFrom(cs, i) ==
    IF i > Len(epochs_run) THEN cs = <<>>
    ELSE LET e == epochs_run[i]
             mode == IF Len(cs) >= 5 /\ cs[5][1] = "train_test_def.py"
                       THEN "all" ELSE "both"
             returned == i <= Len(hist.returns)
             full == EpochCalls(e, mode,
                                IF returned THEN hist.returns[i] = "continue" ELSE TRUE)
         IN  IF returned
               THEN /\ IsPrefix(full, cs)
                    /\ OrderedFrom(SubSeq(cs, Len(full) + 1, Len(cs)), i + 1)
               ELSE i = Len(epochs_run) /\ IsPrefix(cs, full)

\* C7: the collaborator invocations of a run are, epoch by epoch, the fixed
\* sequence solver, exporter, opponent updater, payoff sampler, training pair,
\* defender check, attacker check and, if the epoch continued, column
\* expander, name appender, data ingester, each once, the epoch in progress
\* having made a prefix of it; a child started with subprocess.call is the
\* last one invoked and runs alone; the duplicate-epoch check precedes every
\* invocation of its epoch; and no epoch is entered while anything is running.
C7_StageOrder ==
    /\ OrderedFrom(calls, 1)
    /\ proc # "none" =>
          /\ calls # <<>>
          /\ Last(calls)[1] = proc
          /\ def_unit # "running" /\ att_unit # "running"
    /\ pc \in {"loop", "check_not_run", "after_epoch", "done"} =>
          proc = "none" /\ def_unit # "running" /\ att_unit # "running"
    /\ pc = "check_not_run" =>
          \A i \in DOMAIN calls :
              /\ calls[i][2] # new_epoch
              /\ calls[i][1] \in {"gambit_analyze.py", "create_tsv_files.py"}
                    => calls[i][2] # my_epoch

\* C7 witness: a run of two epochs that both continued has ended, the second
\* epoch with the two training units launched separately.
C7_Witness ==
    /\ pc = "done"
    /\ hist.returns = <<"continue", "continue">>
    /\ Len(calls) >= 20
    /\ CallCount("train_test_att.py", my_epoch) = 1
    /\ CallCount("add_new_data.py", my_epoch) = 1

\* The port after k acquisitions by the formula of the port-allocation
\* property, and the states in which the k-th allocation has been made from
\* the port allocated before.
SpecPort(P, k) ==
    MIN_PORT + ((P - MIN_PORT + k * PORTS_PER_ROUND) % (MAX_PORT - MIN_PORT))

PortAllocated ==
    /\ hist.chained
    /\ hist.acquisitions >= 1
    /\ pc # "read_def_port"

\* C8 (as the spec states it): after k acquisitions whose reads returned the
\* port allocated before, the allocated port is
\* MIN_PORT + ((P - MIN_PORT + k*S) mod (MAX_PORT - MIN_PORT)).
C8_SpecFormula ==
    PortAllocated => hist.last_port = SpecPort(hist.start_port, hist.acquisitions)

\* The port after k acquisitions when the wrap restarts at MIN_PORT.
CeilDiv(a, b) == (a + b - 1) \div b

CyclicPort(P, k) ==
    LET untilWrap == CeilDiv(MAX_PORT - P, PORTS_PER_ROUND)
        period == CeilDiv(MAX_PORT - MIN_PORT, PORTS_PER_ROUND)
    IN  IF k < untilWrap THEN P + k * PORTS_PER_ROUND
        ELSE MIN_PORT + ((k - untilWrap) % period) * PORTS_PER_ROUND

Aligned(P) ==
    /\ (P - MIN_PORT) % PORTS_PER_ROUND = 0
    /\ (MAX_PORT - MIN_PORT) % PORTS_PER_ROUND = 0

\* C8 (amended): the allocation is deterministic and cyclic, but the wrap goes
\* to MIN_PORT itself: from P the port advances by the stride while it stays
\* below MAX_PORT, then restarts at MIN_PORT and cycles through MIN_PORT,
\* MIN_PORT + S, ...; this is the spec's formula when the stride divides both
\* P - MIN_PORT and MAX_PORT - MIN_PORT.  Before the first acquisition the
\* recorded port is P.
C8_PortCycle ==
    /\ hist.acquisitions = 0 => recorded_port = hist.start_port
    /\ PortAllocated =>
          /\ hist.last_port = CyclicPort(hist.start_port, hist.acquisitions)
          /\ hist.last_port \in Ports
          /\ Aligned(hist.start_port) =>
                hist.last_port = SpecPort(hist.start_port, hist.acquisitions)
    /\ pc \in {"run_both", "popen_def", "popen_att", "wait_def", "wait_att"} =>
          def_port = hist.last_port

\* C8 witness: the third acquisition of a run that started at MIN_PORT, after
\* the wrap.
C8_Witness ==
    /\ PortAllocated
    /\ hist.acquisitions = 3
    /\ hist.start_port = MIN_PORT
    /\ hist.last_port = MIN_PORT + PORTS_PER_ROUND

\* C9 (as the spec states it): started again at the epoch the first run
\* converged at, with the locks free and the artifacts as they were, main
\* invokes no collaborator and ends with the duplicate-epoch error.
C9_RestartRaises ==
    (hist.run = 2 /\ cur_epoch \in hist.converged_at /\ ~AnyHeld(hist.start_locks)) =>
        /\ calls = <<>>
        /\ pc \notin {"check_for_files", "check_locks", "loop", "check_not_run"} =>
              pc = "aborted" /\ error = "already exists"

\* C9 (amended): a converged epoch N leaves no result artifact for N + 1, so a
\* second run started at N passes the duplicate-epoch check of its first
\* iteration and computes epoch N again; whenever the second run does end with
\* the duplicate-epoch error, the artifact of the epoch after the one it was
\* about to run exists.
C9_RestartRecomputes ==
    hist.run = 2 =>
        /\ (cur_epoch \in hist.converged_at /\ hist.returns = <<>>
              /\ pc \in {"check_for_files", "check_locks", "loop", "check_not_run"})
              => (cur_epoch + 1) \notin artifacts
        /\ (cur_epoch \in hist.converged_at /\ error = "already exists")
              => Len(epochs_run) >= 2
        /\ error = "already exists" => (Last(epochs_run) + 1) \in artifacts

\* C9 witness: the second run, started at the converged epoch, has invoked the
\* equilibrium solver for it.
C9_Witness ==
    /\ hist.run = 2
    /\ cur_epoch \in hist.converged_at
    /\ ~AnyHeld(hist.start_locks)
    /\ CallCount("gambit_analyze.py", cur_epoch) = 1

\* C10: with a budget of one round, a run that ends normally has entered
\* run_epoch once; if that epoch stopped, main reports convergence, the counter
\* is the start epoch, the data ingester was not invoked and no artifact of the
\* next epoch exists; if it continued, the data ingester was invoked once for
\* the next epoch, that epoch's result artifact exists and the counter is the
\* start epoch plus one.
C10_BudgetOne ==
    (max_new_rounds = Some(1) /\ pc = "done") =>
        /\ epochs_run = <<cur_epoch>>
        /\ Len(hist.returns) = 1
        /\ IF hist.returns[1] = "stop"
             THEN /\ report = "converged"
                  /\ my_epoch = cur_epoch
                  /\ CallCount("add_new_data.py", cur_epoch + 1) = 0
                  /\ (cur_epoch + 1) \notin artifacts
             ELSE /\ report = "budget"
                  /\ my_epoch = cur_epoch + 1
                  /\ CallCount("add_new_data.py", cur_epoch + 1) = 1
                  /\ (cur_epoch + 1) \in artifacts

\* The message check_for_files' error carries for the required item at
\* position i of the check order (the directories, then the files).
MissingMessage(i) ==
    IF i <= Len(Dirs) THEN "Missing directory: " \o Resources[i]
    ELSE "Missing file: " \o Resources[i]

\* C11: if a required directory or seed file is missing when main starts, main
\* never gets past check_for_files: it dies with the error naming the first
\* missing item of the check order (all directories in list order, then all
\* files in list order), whatever the locks are; the lock check is not
\* reached, no collaborator is invoked, run_epoch is not entered, and locks,
\* recorded port and result artifacts are as they were.
C11_MissingResourceAborts ==
    missing # {} =>
        /\ pc \in {"check_for_files", "aborted"}
        /\ pc = "aborted" =>
              \E i \in DOMAIN Resources :
                  /\ Resources[i] \in missing
                  /\ \A j \in 1..(i - 1) : Resources[j] \notin missing
                  /\ error = MissingMessage(i)
        /\ calls = <<>>
        /\ epochs_run = <<>>
        /\ proc = "none" /\ def_unit = "idle" /\ att_unit = "idle"
        /\ hist.acquisitions = 0
        /\ locks = hist.start_locks
        /\ recorded_port = hist.start_port
        /\ artifacts = hist.start_artifacts

\* C11 witness: the last directory and the first file are missing and a lock
\* is held; main has died naming the directory.
C11_Witness ==
    /\ pc = "aborted"
    /\ missing = {Dirs[Len(Dirs)], Files[1]}
    /\ error = "Missing directory: simspecs"
    /\ AnyHeld(locks)

\* C12: main prints a final message exactly when it ends without a fatal
\* error, and the message is one of two: "converged" exactly when run_epoch was
\* invoked and its last invocation returned stop; "budget exhausted" exactly
\* when the remaining budget is zero with the loop flag still true, which
\* includes a budget of zero, where run_epoch was never entered. The epoch the
\* message names is the final value of the epoch counter, the start epoch plus
\* the number of continue results.
C12_FinalReport ==
    /\ pc # "done" => report = "none" /\ hist.reported_epoch = None
    /\ pc = "done" =>
        /\ error = "none"
        /\ report \in {"converged", "budget"}
        /\ report = "converged" <=>
              (hist.returns # <<>> /\ Last(hist.returns) = "stop")
        /\ report = "budget" <=>
              (should_continue /\ rounds_left = Some(0))
        /\ max_new_rounds = Some(0) => report = "budget" /\ epochs_run = <<>>
        /\ hist.reported_epoch = Some(my_epoch)
        /\ my_epoch = cur_epoch + Count(hist.returns, "continue")

\* C12 witness: both outcomes' boundary cases: a run that converged in the
\* round that would have used up its budget of two.
C12_Witness ==
    /\ pc = "done"
    /\ max_new_rounds = Some(2)
    /\ hist.returns = <<"continue", "stop">>
    /\ report = "converged"
    /\ rounds_left = Some(1)
    /\ hist.reported_epoch = Some(cur_epoch + 1)

\* main has ended, normally or with a fatal error.
Terminated == pc \in {"done", "aborted"}

\* C13: under fair scheduling (every collaborator exits, a defender-train lock
\* the orchestrator waits on is released) a run with a round budget ends, by
\* convergence, by using up the budget or with a fatal error; a run without a
\* budget ends only by convergence or with a fatal error, and it does end
\* once a run_epoch invocation has returned stop.
C13_Termination ==
    /\ (max_new_rounds # None) => <>Terminated
    /\ [](max_new_rounds = None /\ Terminated =>
              \/ pc = "aborted" /\ error # "none"
              \/ pc = "done" /\ report = "converged" /\ Last(hist.returns) = "stop")
    /\ [](max_new_rounds # None /\ pc = "done" =>
              report = "converged" \/ (report = "budget" /\ rounds_left = Some(0)))
    /\ (hist.returns # <<>> /\ Last(hist.returns) = "stop") ~> (pc = "done")

\* C13 witness: a run with a budget of two has used it up, and its second
\* epoch found the defender-train lock held when it came to wait for it.
C13_Witness ==
    /\ pc = "done"
    /\ max_new_rounds = Some(2)
    /\ report = "budget"
    /\ hist.returns = <<"continue", "continue">>
    /\ hist.acquisitions = 2
    /\ hist.waited_held

\* One of main's three numeric arguments is out of range.
BadNumericArgs ==
    \/ max_timesteps_def <= 0
    \/ max_timesteps_att <= 0
    \/ max_new_rounds # None /\ max_new_rounds[1] < 0

\* C14: when main is given a training-step budget that is not positive or a
\* negative round budget, it dies with a fatal error before the convergence
\* loop: run_epoch is never entered, no collaborator is invoked and main does
\* not end normally.
C14_EagerValidation ==
    BadNumericArgs =>
        /\ pc \in {"check_for_files", "check_locks", "aborted"}
        /\ epochs_run = <<>>
        /\ calls = <<>>
        /\ def_unit = "idle" /\ att_unit = "idle"

\* C15: find_params_simulated_annealing_fpsb returns the saved parameters and
\* the saved value as they stand after the last trial, whatever values were
\* sampled and whatever should_switch_params decided.
C15_ReturnsSaved ==
    anneal_pc = "returned" =>
        anneal_result = Some(<<saved_params, saved_value>>)

\* C16: for valid arguments sample_function is called max_steps times, each
\* time with a vector of param_count components, and the returned parameter
\* vector has param_count components.
C16_VectorLength ==
    anneal_pc = "returned" =>
        /\ Len(sample_calls) = max_steps
        /\ \A i \in DOMAIN sample_calls : Len(sample_calls[i]) = param_count
        /\ Len(anneal_result[1][1]) = param_count

\* A step that brings the orchestrator to its lock_def call is the return of
\* wait_for_def_lock with the lock free; it starts no collaborator and leaves
\* the lock files alone.
ArrivesAtAcquire ==
    (pc' = "lock_def" /\ pc # "lock_def") =>
        /\ pc = "wait_for_def_lock"
        /\ ~locks["def_train"]
        /\ UNCHANGED <<locks, calls>>

\* A step that acquires is the lock_def call, taken with the lock free.
AcquiresFree ==
    hist'.acquisitions # hist.acquisitions =>
        /\ pc = "lock_def" /\ pc' = "read_def_port"
        /\ hist'.acquisitions = hist.acquisitions + 1
        /\ ~locks["def_train"] /\ locks'["def_train"]
        /\ calls' = calls

\* While the orchestrator is between the wait and the acquire the lock is
\* free and no collaborator runs; no acquire has found the lock held.
NothingBetweenWaitAndAcquire ==
    /\ ~hist.acquired_held
    /\ pc = "lock_def" =>
          /\ ~locks["def_train"]
          /\ proc = "none" /\ def_unit = "idle" /\ att_unit = "idle"

\* C17: in both dispatch modes the defender-train lock is acquired only in the
\* step that follows the return of wait_for_def_lock, a return that happens
\* with the lock free; between that return and the acquire no collaborator is
\* started or running and the lock files do not change. So the orchestrator,
\* alone on its run identifier, never acquires the lock while it is held.
C17_WaitBeforeAcquire ==
    /\ []NothingBetweenWaitAndAcquire
    /\ [][ArrivesAtAcquire /\ AcquiresFree]_vars

\* C17 witness: in the mode with two training processes the second epoch has
\* acquired the lock its first epoch's trainer had released.
C17_Witness ==
    /\ dispatch = "all"
    /\ pc = "read_def_port"
    /\ hist.acquisitions = 2
    /\ locks["def_train"]
    /\ ~hist.acquired_held

\* The port the training stage is to be given when read_def_port returned p.
ExpectedPort(p) ==
    IF p + PORTS_PER_ROUND < MAX_PORT THEN p + PORTS_PER_ROUND ELSE MIN_PORT

\* The positions of run_train_test_* after the port has been computed.
TrainingPcs == {"run_both", "popen_def", "popen_att", "wait_def", "wait_att"}

\* C18: the port read after the acquire is a port of [MIN_PORT, MAX_PORT), and
\* the port the training stage computes from a read port p and hands to every
\* training role is p + PORTS_PER_ROUND if that is below MAX_PORT and MIN_PORT
\* otherwise; so it is a port of [MIN_PORT, MAX_PORT) in every epoch.
C18_PortHanded ==
    /\ hist.acquisitions >= 1 /\ pc # "read_def_port" => hist.read_port \in Ports
    /\ pc \in TrainingPcs =>
          /\ def_port = ExpectedPort(hist.read_port)
          /\ def_port \in Ports
    /\ \A h \in hist.handed :
          /\ h[2] = ExpectedPort(hist.read_port)
          /\ h[2] >= MIN_PORT /\ h[2] < MAX_PORT

\* C18 witness: the second epoch of a run read the port the first had
\* recorded, whose advance reaches MAX_PORT exactly, and handed MIN_PORT to
\* its trainers.
C18_Witness ==
    /\ hist.acquisitions = 2
    /\ hist.read_port = MAX_PORT - PORTS_PER_ROUND
    /\ hist.handed # {}
    /\ \A h \in hist.handed : h[2] = MIN_PORT

\* The position of run_epoch after the stage that runs the script.
AfterScript(script) ==
    CASE script = "gambit_analyze.py" -> "run_create_tsv"
      [] script = "create_tsv_files.py" -> "run_update_strats"
      [] script = "update_opponent_strats.py" -> "run_gen_both_payoffs"
      [] script = "get_both_payoffs_from_game.py" -> "run_train_test"
      [] script = "generate_new_cols.py" -> "run_append_net_names"
      [] script = "append_net_names.py" -> "run_add_new_data"
      [] script = "add_new_data.py" -> "return_true"

\* The fatal errors main can die with.
FatalErrors ==
    {"Lock is being held", "already exists"}
        \cup {MissingMessage(i) : i \in DOMAIN Resources}

\* When a child of subprocess.call exits, with either status, run_epoch goes
\* on to the stage that follows it, and main's error, report and loop
\* variables are untouched.
ExitIgnoresStatus ==
    (proc # "none" /\ proc' = "none") =>
        /\ pc' = AfterScript(proc)
        /\ last_status' \in {"ok", "failed"}
        /\ UNCHANGED <<error, report, mainLocals, epochLocals, calls>>

\* After a stage or a training unit has failed, run_epoch is where it would
\* be had it succeeded, and main has not died.
FailureLeavesFlow ==
    /\ last_status # "none" =>
          /\ pc = AfterScript(Last(calls)[1])
          /\ proc = "none"
          /\ error = "none"
    /\ (def_unit = "failed" \/ att_unit = "failed") =>
          /\ pc \in {"run_both", "popen_att", "wait_def", "wait_att",
                      "check_def", "check_att"}
          /\ error = "none"
    /\ error # "none" => error \in FatalErrors /\ pc = "aborted"
    /\ pc = "after_epoch" =>
          (should_continue <=> (is_def_beneficial \/ is_att_beneficial))

\* C19: a collaborator that exits with a failure status does not change the
\* orchestrator's control flow: after every stage, in every epoch, the next
\* stage is the one that follows a success, a failed training unit is joined
\* and followed by the deviation checks like a successful one, main dies only
\* of its three own checks, and what run_epoch returns depends on the two
\* deviation flags only.
C19_FailureIgnored ==
    /\ []FailureLeavesFlow
    /\ [][ExitIgnoresStatus]_vars

\* C19 witness: the payoff generator has failed in the second epoch and
\* run_epoch is about to enter the training stage.
C19_Witness ==
    /\ last_status = "failed"
    /\ Last(calls)[1] = "get_both_payoffs_from_game.py"
    /\ pc = "run_train_test"
    /\ Len(epochs_run) = 2

\* What the Epoch Runner sees of the training stage when it returns, in
\* either mode: the lock was acquired once for this epoch, both roles were
\* started with the one advanced port and with new_epoch, and both are done.
TrainStageResult ==
    /\ pc = "check_def" =>
          /\ dispatch \in {"both", "all"}
          /\ hist.acquisitions = Len(epochs_run)
          /\ hist.handed = {<<"def", ExpectedPort(hist.read_port), new_epoch>>,
                            <<"att", ExpectedPort(hist.read_port), new_epoch>>}
          /\ Finished(def_unit) /\ Finished(att_unit)
    /\ \A h \in hist.handed :
          /\ h[2] = hist.last_port
          /\ h[3] = new_epoch
    /\ pc \in TrainingPcs /\ def_unit = "running" => locks["def_train"]

\* The steps of the training stage up to the start of the roles are the same
\* in both modes: the wait returns with the lock free, the lock is acquired,
\* the port is read and advanced; only then do the modes part.
TrainStageSteps ==
    /\ (pc = "run_train_test" /\ pc' # pc) => pc' = "wait_for_def_lock"
    /\ (pc = "wait_for_def_lock" /\ pc' # pc) =>
          pc' = "lock_def" /\ ~locks["def_train"]
    /\ (pc = "lock_def" /\ pc' # pc) =>
          pc' = "read_def_port" /\ locks'["def_train"]
    /\ (pc = "read_def_port" /\ pc' # pc) =>
          /\ def_port' = ExpectedPort(recorded_port)
          /\ pc' = IF dispatch = "both" THEN "run_both" ELSE "popen_def"
          /\ calls' = calls
    /\ (pc \in TrainingPcs /\ pc' \notin TrainingPcs) =>
          /\ pc' = "check_def"
          /\ Finished(def_unit) /\ Finished(att_unit)
          /\ UNCHANGED <<locks, recorded_port, hist>>

\* C20: run_train_test_both and run_train_test_all are the same to the Epoch
\* Runner: in both, the stage waits for the defender-train lock, acquires it,
\* reads the port and advances it with the wrap, hands that one port and
\* new_epoch to the defender role and to the attacker role, and returns only
\* when both roles are done.
C20_ModesEquivalent ==
    /\ []TrainStageResult
    /\ [][TrainStageSteps]_vars

\* C20 witness: the mode with two processes returns from its second epoch's
\* training, the attacker's process having failed.
C20_Witness ==
    /\ dispatch = "all"
    /\ pc = "check_def"
    /\ Len(epochs_run) = 2
    /\ att_unit = "failed"
    /\ Cardinality(hist.handed) = 2

\* The collaborators run_epoch invokes for the current epoch; all others are
\* invoked for the next one.
CurrentEpochScripts == {"gambit_analyze.py", "create_tsv_files.py"}

\* The epoch a collaborator is to be invoked with in the run_epoch entered
\* with epoch n.
EpochTag(script, n) == IF script \in CurrentEpochScripts THEN n ELSE n + 1

\* The positions in the call log of the invocations made by the run_epoch
\* entered last: those from its solver invocation on, if it has made one (every
\* run_epoch that gets past its duplicate check starts with the solver).
CallsOfLastEpoch ==
    LET starts == {i \in DOMAIN calls : calls[i][1] = "gambit_analyze.py"}
    IN  IF starts = {} \/ Cardinality(starts) < Len(epochs_run) THEN {}
        ELSE (CHOOSE i \in starts : \A j \in starts : j <= i)..Len(calls)

\* C21: in the run_epoch entered with epoch N the equilibrium solver and the
\* strategy exporter are invoked with N, and the opponent updater, the payoff
\* sampler, the trainers, both deviation checks, the column expander, the name
\* appender and the data ingester with N + 1, which is new_epoch, the epoch
\* whose result artifact the duplicate check tested.
C21_EpochArguments ==
    /\ pc \in EpochBodyPcs \cup {"check_not_run"} =>
          /\ epochs_run # <<>>
          /\ my_epoch = Last(epochs_run)
          /\ new_epoch = Last(epochs_run) + 1
    /\ pc \in EpochBodyPcs => new_epoch \notin hist.start_artifacts
    /\ (proc # "none" /\ epochs_run # <<>>) =>
          Last(calls) = <<proc, EpochTag(proc, Last(epochs_run))>>
    /\ \A i \in DOMAIN calls :
          \E k \in DOMAIN epochs_run :
              calls[i][2] = EpochTag(calls[i][1], epochs_run[k])
    /\ \A i \in CallsOfLastEpoch :
          calls[i][2] = EpochTag(calls[i][1], Last(epochs_run))
    /\ \A h \in hist.handed : h[3] = Last(epochs_run) + 1
    /\ pc \in {"check_att", "decide"} =>
          /\ calls[Len(calls) - (IF pc = "decide" THEN 1 ELSE 0)]
                = <<"check_for_cli(def)", Last(epochs_run) + 1>>
          /\ pc = "decide" =>
                Last(calls) = <<"check_for_cli(att)", Last(epochs_run) + 1>>

\* C21 witness: in the second epoch of a run the data ingester is running for
\* the next epoch, the solver having been invoked for the current one.
C21_Witness ==
    /\ Len(epochs_run) = 2
    /\ proc = "add_new_data.py"
    /\ Last(calls) = <<"add_new_data.py", my_epoch + 1>>
    /\ CallCount("gambit_analyze.py", my_epoch) = 1
    /\ CallCount("update_opponent_strats.py", my_epoch + 1) = 1

OnlyAcquireByOrchestrator ==
    locks' # locks =>
        \/ /\ pc = "lock_def" /\ pc' = "read_def_port"
           /\ ~locks["def_train"]
           /\ locks' = [locks EXCEPT !["def_train"] = TRUE]
        \/ /\ def_unit = "running" /\ Finished(def_unit')
           /\ pc' = pc
           /\ locks' = [locks EXCEPT !["def_train"] = FALSE]

\* Waiting on a held defender-train lock that nobody frees, the orchestrator
\* takes no further step.
StaysBlocked ==
    (pc = "wait_for_def_lock" /\ locks["def_train"]) =>
        /\ pc' = pc
        /\ locks' = locks
        /\ calls' = calls

\* The lock is acquired once in each epoch that reaches its training stage;
\* and when the orchestrator waits on a held lock, the lock was left by the
\* trainer of the epoch before, the four stages before training have been
\* invoked for this epoch, and nothing of its training has.
BlockedAfterStages ==
    /\ hist.acquisitions <= Len(epochs_run)
    /\ pc \in TrainingPcs \cup {"read_def_port", "check_def", "check_att", "decide"} =>
          hist.acquisitions = Len(epochs_run)
    /\ (pc = "wait_for_def_lock" /\ locks["def_train"]) =>
          /\ Len(epochs_run) >= 2
          /\ hist.acquisitions = Len(epochs_run) - 1
          /\ CallCount("gambit_analyze.py", my_epoch) = 1
          /\ CallCount("create_tsv_files.py", my_epoch) = 1
          /\ CallCount("update_opponent_strats.py", new_epoch) = 1
          /\ CallCount("get_both_payoffs_from_game.py", new_epoch) = 1
          /\ \A sc \in {"train_test_both.py", "train_test_def.py", "train_test_att.py",
                          "check_for_cli(def)", "check_for_cli(att)"} :
                CallCount(sc, new_epoch) = 0
          /\ proc = "none" /\ def_unit # "running" /\ att_unit # "running"
          /\ hist.handed = {}

\* C23: the orchestrator never frees a lock; its only change of a lock file
\* is the acquire of the defender-train lock, once per epoch, so the lock an
\* epoch acquires has been freed by the trainer of the epoch before. If that
\* trainer does not free it, the next epoch, after its solver, exporter,
\* opponent-updater and payoff-sampler stages, stays in wait_for_def_lock.
C23_NeverReleases ==
    /\ []BlockedAfterStages
    /\ [][OnlyAcquireByOrchestrator /\ StaysBlocked]_vars

\* C23 witness: the second epoch of a run waits on the defender-train lock the
\* first epoch's trainer left held, its payoff sampler having run.
C23_Witness ==
    /\ pc = "wait_for_def_lock"
    /\ locks["def_train"]
    /\ Len(epochs_run) = 2
    /\ hist.acquisitions = 1
    /\ Last(calls) = <<"get_both_payoffs_from_game.py", new_epoch>>

====
